---- MODULE Spec2Model ----
(***************************************************************************)
(* A model of croner (src/src/croner.js): the pattern parser CronPattern,  *)
(* the advancer CronDate.increment, Cron._next / msToNext and the job      *)
(* loop built by Cron.schedule on the host's setTimeout.                   *)
(*                                                                         *)
(* Text is a sequence of one-character strings.  A JavaScript Date is a    *)
(* record [t, ms]: whole seconds since 1970-01-01T00:00:00 and the         *)
(* milliseconds within that second; the host's local time zone is taken to *)
(* be UTC (no daylight saving shifts).                                     *)
(***************************************************************************)
EXTENDS Integers, Sequences, FiniteSets, TLC

\* A local of the source (var x = e) is evaluated once, where it is
\* declared: With(e, LAMBDA x : body) is body with x bound to the value of e.
With(value, Body(_)) == CHOOSE r \in {Body(x) : x \in {value}} : TRUE

\* ---------------------------------------------------------------- text

Range(s) == {s[i] : i \in DOMAIN s}

Digit == {"0", "1", "2", "3", "4", "5", "6", "7", "8", "9"}

DigitVal(c) ==
    CASE c = "0" -> 0 [] c = "1" -> 1 [] c = "2" -> 2 [] c = "3" -> 3
      [] c = "4" -> 4 [] c = "5" -> 5 [] c = "6" -> 6 [] c = "7" -> 7
      [] c = "8" -> 8 [] c = "9" -> 9

\* String.prototype.split with a one-character separator
RECURSIVE Split(_, _)
Split(s, sep) ==
    IF sep \notin Range(s) THEN <<s>>
    ELSE LET i == CHOOSE k \in DOMAIN s :
                      s[k] = sep /\ \A j \in 1..(k - 1) : s[j] # sep
         IN  <<SubSeq(s, 1, i - 1)>> \o Split(SubSeq(s, i + 1, Len(s)), sep)

\* String.prototype.trim (the only white space of the model is " ")
RECURSIVE TrimLeft(_)
TrimLeft(s) == IF s # <<>> /\ Head(s) = " " THEN TrimLeft(Tail(s)) ELSE s

RECURSIVE TrimRight(_)
TrimRight(s) ==
    IF s # <<>> /\ s[Len(s)] = " " THEN TrimRight(SubSeq(s, 1, Len(s) - 1)) ELSE s

Trim(s) == TrimRight(TrimLeft(s))

\* replace(/\s+/g, " "): every run of white space becomes one space
RECURSIVE CollapseSpaces(_)
CollapseSpaces(s) ==
    IF Len(s) < 2 THEN s
    ELSE IF s[1] = " " /\ s[2] = " " THEN CollapseSpaces(Tail(s))
    ELSE <<s[1]>> \o CollapseSpaces(Tail(s))

\* A JavaScript number that may be NaN
NaN == [nan |-> TRUE, v |-> 0]
Num(n) == [nan |-> FALSE, v |-> n]
Plus(x, k) == IF x.nan THEN NaN ELSE Num(x.v + k)

RECURSIVE DigitsValue(_, _)
DigitsValue(s, acc) ==
    IF s = <<>> \/ Head(s) \notin Digit THEN acc
    ELSE DigitsValue(Tail(s), acc * 10 + DigitVal(Head(s)))

\* parseInt(s, 10) on text without sign or white space: the leading digits,
\* NaN when there is none
parseInt(s) ==
    IF s = <<>> \/ Head(s) \notin Digit THEN NaN ELSE Num(DigitsValue(s, 0))

\* ------------------------------------------------------------ calendar
\* The host's Date: proleptic Gregorian calendar, local time = UTC.

DaysFromCivil(y, m, d) ==
    LET yy  == IF m <= 2 THEN y - 1 ELSE y
        era == yy \div 400
        yoe == yy - era * 400
        mp  == (m + 9) % 12
        doy == (153 * mp + 2) \div 5 + d - 1
        doe == yoe * 365 + yoe \div 4 - yoe \div 100 + doy
    IN  era * 146097 + doe - 719468

CivilFromDays(z) ==
    LET zz  == z + 719468
        era == zz \div 146097
        doe == zz - era * 146097
        yoe == (doe - doe \div 1460 + doe \div 36524 - doe \div 146096) \div 365
        doy == doe - (365 * yoe + yoe \div 4 - yoe \div 100)
        mp  == (5 * doy + 2) \div 153
        d   == doy - (153 * mp + 2) \div 5 + 1
        m   == IF mp < 10 THEN mp + 3 ELSE mp - 9
        y   == yoe + era * 400 + (IF m <= 2 THEN 1 ELSE 0)
    IN  [y |-> y, m |-> m, d |-> d]

\* new Date(years, months, days, hours, minutes, seconds, milliseconds):
\* months are 0-based, every component may overflow and carries over
NewDate(years, months, days, hours, minutes, seconds, milliseconds) ==
    LET y     == years + months \div 12
        m     == (months % 12) + 1
        total == ((DaysFromCivil(y, m, 1) + days - 1) * 24 + hours) * 3600
                 + minutes * 60 + seconds + milliseconds \div 1000
    IN  [t |-> total, ms |-> milliseconds % 1000]

\* Date.prototype.getDay: 0 = Sunday (1970-01-01 was a Thursday)
getDay(date) == (date.t \div 86400 + 4) % 7

\* Date comparison (a < b, a >= b) and subtraction (a - b, in milliseconds)
DateLess(a, b) == a.t < b.t \/ (a.t = b.t /\ a.ms < b.ms)
DateMinus(a, b) == (a.t - b.t) * 1000 + (a.ms - b.ms)
DatePlusMs(a, k) ==
    LET total == a.ms + k
    IN  [t |-> a.t + total \div 1000, ms |-> total % 1000]

\* ---------------------------------------------------------- CronPattern

\* fill(Array(n), 0): the elements 0..n-1, all 0.  The array object is
\* modelled with one more slot, -1: arr[-1] = 1 does not touch the elements
\* of a JavaScript array, it adds the property "-1" to the object, which a
\* later read of arr[-1] returns (0 stands for the undefined of a read
\* before any such write).
fill(n) == [i \in (-1)..(n - 1) |-> 0]

\* arr.length
Length(arr) == Cardinality(DOMAIN arr) - 1

\* arr[i] = 1 (with i NaN the write adds the property "NaN", never read)
SetSlot(arr, i) ==
    IF ~i.nan /\ i.v \in DOMAIN arr THEN [arr EXCEPT ![i.v] = 1] ELSE arr

Raise == [raised |-> TRUE]
Ok(arr) == [raised |-> FALSE, arr |-> arr]

\* for( i = lower; i <= upper; i++ ) arr[(i + valueIndexOffset)] = 1
\* (the array after the loop: the slots the passes i, i + 1, .. upper wrote)
FillRange(arr, i, upper, valueIndexOffset) ==
    [k \in DOMAIN arr |->
        IF k - valueIndexOffset \in i..upper THEN 1 ELSE arr[k]]

\* for( i = 0; i < arr.length; i += steps ) arr[(i + valueIndexOffset)] = 1
\* (the array after the loop: the slots the passes i, i + steps, .. wrote)
FillSteps(arr, i, steps, valueIndexOffset) ==
    [k \in DOMAIN arr |->
        IF /\ k - valueIndexOffset \in i..(Length(arr) - 1)
           /\ (k - valueIndexOffset - i) % steps = 0
        THEN 1 ELSE arr[k]]

RangeToArray(arr, conf, valueIndexOffset) ==
    LET split == Split(conf, "-")
        lower == Plus(parseInt(split[1]), valueIndexOffset)
        upper == Plus(parseInt(split[2]), valueIndexOffset)
    IN  IF Len(split) # 2 THEN Raise
        ELSE IF lower.nan \/ upper.nan THEN Raise
        ELSE IF lower.v < 0 \/ upper.v >= Length(arr) THEN Raise
        ELSE IF lower.v > upper.v THEN Raise
        ELSE Ok(FillRange(arr, lower.v, upper.v, valueIndexOffset))

StepsToArray(arr, conf, valueIndexOffset) ==
    LET split == Split(conf, "/")
        steps == parseInt(split[2])
    IN  IF Len(split) # 2 THEN Raise
        ELSE IF split[1] # <<"*">> THEN Raise
        ELSE IF steps.nan THEN Raise
        ELSE IF steps.v = 0 THEN Raise
        ELSE IF steps.v > Length(arr) THEN Raise
        ELSE Ok(FillSteps(arr, 0, steps.v, valueIndexOffset))

NumberToArrayUnchecked(arr, conf, valueIndexOffset) ==
    Ok(SetSlot(arr, Plus(parseInt(conf), valueIndexOffset)))
NumberToArray(arr, conf, valueIndexOffset) ==
    LET i == Plus(parseInt(conf), valueIndexOffset)
    IN  IF ~i.nan /\ (i.v < 0 \/ i.v >= Length(arr)) THEN Raise
        ELSE Ok(SetSlot(arr, i))

\* CronPattern.prototype.partToArray on the array arr = this[type]: the
\* array after the call, or Raise
RECURSIVE partToArray(_, _, _)
RECURSIVE EachToArray(_, _, _, _)
partToArray(arr, conf, valueIndexOffset) ==
    IF conf = <<"*">> THEN Ok([i \in DOMAIN arr |-> IF i >= 0 THEN 1 ELSE arr[i]])
    ELSE IF Len(Split(conf, ",")) > 1
         THEN EachToArray(arr, Split(conf, ","), 1, valueIndexOffset)
    ELSE IF "-" \in Range(conf) THEN RangeToArray(arr, conf, valueIndexOffset)
    ELSE IF "/" \in Range(conf) THEN StepsToArray(arr, conf, valueIndexOffset)
    ELSE NumberToArray(arr, conf, valueIndexOffset)

\* the comma loop of partToArray: split[i] in turn, a raise ends it
EachToArray(arr, split, i, valueIndexOffset) ==
    IF i > Len(split) THEN Ok(arr)
    ELSE With(partToArray(arr, split[i], valueIndexOffset),
              LAMBDA r :
                IF r.raised THEN Raise
                ELSE EachToArray(r.arr, split, i + 1, valueIndexOffset))

\* reValidCron = /[^/*0-9,-]+/
LegalChar == Digit \cup {"/", "*", ",", "-"}

\* hasDaysOfWeek && (hasMonths || hasDates)
IncompatibleNever(parts) == FALSE
Incompatible(parts) ==
    LET hasMonths     == parts[5] # <<"*">>
        hasDaysOfWeek == parts[6] # <<"*">>
        hasDates      == parts[4] # <<"*">>
    IN  hasDaysOfWeek /\ (hasMonths \/ hasDates)

\* if( this.daysOfWeek[7] ) this.daysOfWeek[0] = 1
SundayForgotten(daysOfWeek) == daysOfWeek
Sunday(daysOfWeek) ==
    IF daysOfWeek[7] = 1 THEN [daysOfWeek EXCEPT ![0] = 1] ELSE daysOfWeek

\* new CronPattern(pattern): the six arrays, or raised
CronPattern(pattern) ==
    LET parts      == Split(CollapseSpaces(Trim(pattern)), " ")
        seconds    == partToArray(fill(60), parts[1], 0)
        minutes    == partToArray(fill(60), parts[2], 0)
        hours      == partToArray(fill(24), parts[3], 0)
        days       == partToArray(fill(31), parts[4], -1)
        months     == partToArray(fill(12), parts[5], -1)
        daysOfWeek == partToArray(fill(8), parts[6], 0)
    IN  IF Len(parts) # 6 THEN Raise
        ELSE IF \E i \in 1..6 : Range(parts[i]) \ LegalChar # {} THEN Raise
        ELSE IF Incompatible(parts) THEN Raise
        ELSE IF seconds.raised \/ minutes.raised \/ hours.raised
                \/ days.raised \/ months.raised \/ daysOfWeek.raised THEN Raise
        ELSE [raised     |-> FALSE,
              seconds    |-> seconds.arr,
              minutes    |-> minutes.arr,
              hours      |-> hours.arr,
              days       |-> days.arr,
              months     |-> months.arr,
              daysOfWeek |-> Sunday(daysOfWeek.arr)]


\* ------------------------------------------------------------- CronDate

\* new CronDate(date)
CronDate(date) ==
    LET c   == CivilFromDays(date.t \div 86400)
        sod == date.t % 86400
    IN  [milliseconds |-> date.ms,
         seconds      |-> sod % 60,
         minutes      |-> (sod \div 60) % 60,
         hours        |-> sod \div 3600,
         days         |-> c.d,
         months       |-> c.m - 1,
         years        |-> c.y]

\* CronDate.prototype.getDate
getDate(self) ==
    NewDate(self.years, self.months, self.days, self.hours, self.minutes,
            self.seconds, self.milliseconds)

\* findNext(target, pattern, offset, override): [found, self after the call]
findNext(self, target, pattern, offset, override) ==
    LET startPos == IF override THEN 0 + offset ELSE self[target] + offset
        hits     == {i \in DOMAIN pattern[target] :
                        i >= startPos /\ pattern[target][i] = 1}
        first    == CHOOSE i \in hits : \A j \in hits : i <= j
    IN  IF hits = {} THEN [found |-> FALSE, self |-> self]
        ELSE [found |-> TRUE, self |-> [self EXCEPT ![target] = first - offset]]

toDo ==
    << <<"seconds", "minutes", 0>>,
       <<"minutes", "hours", 0>>,
       <<"hours", "days", 0>>,
       <<"days", "months", -1>>,
       <<"months", "years", 0>> >>

\* the entry of increment: this.seconds += 1; this.milliseconds = 0
IncrementStart(self) ==
    [self EXCEPT !.seconds = @ + 1, !.milliseconds = 0]

\* while(doing >= 0) { findNext(toDo[doing][0], pattern, toDo[doing][2], 0); doing-- }
RECURSIVE ResetDown(_, _, _)
ResetDown(self, doing, pattern) ==
    IF doing < 0 THEN self
    ELSE With(findNext(self, toDo[doing + 1][1], pattern,
                       toDo[doing + 1][3], TRUE).self,
              LAMBDA n : ResetDown(n, doing - 1, pattern))

\* one pass of while(doing < 5) on [self, doing]; carried tells whether the
\* pass incremented the next coarser member
CascadeStep(self, doing, pattern) ==
    LET item == toDo[doing + 1]
    IN  With(findNext(self, item[1], pattern, item[3], FALSE),
             LAMBDA f :
               IF f.found
               THEN [self |-> f.self, doing |-> doing + 1, carried |-> FALSE]
               ELSE [self    |-> ResetDown([self EXCEPT ![item[2]] = @ + 1],
                                           doing, pattern),
                     doing   |-> 0,
                     carried |-> TRUE])

RECURSIVE Cascade(_, _, _)
Cascade(self, doing, pattern) ==
    IF doing >= 5 THEN self
    ELSE With(CascadeStep(self, doing, pattern),
              LAMBDA n : Cascade(n.self, n.doing, pattern))

\* the condition of the weekday loop: pattern.daysOfWeek[this.getDate().getDay()]
WeekdayMatchesAlways(self, pattern) == TRUE
WeekdayMatches(self, pattern) ==
    pattern.daysOfWeek[getDay(getDate(self))] = 1

RECURSIVE WeekdayLoop(_, _)
WeekdayLoop(self, pattern) ==
    IF WeekdayMatches(self, pattern) THEN self
    ELSE With([self EXCEPT !.days = @ + 1],
              LAMBDA n : WeekdayLoop(n, pattern))

\* CronDate.prototype.increment, run to its end
increment(self, pattern) ==
    With(IncrementStart(self),
         LAMBDA started :
           With(Cascade(started, 0, pattern),
                LAMBDA n : WeekdayLoop(n, pattern)))

\* ----------------------------------------------------------------- Cron

None == [none |-> TRUE]
Some(n) == [none |-> FALSE, v |-> n]

\* const maxDelay = Math.pow(2, 32 - 1) - 1
maxDelay == 2147483647

\* opts.maxRuns: a number or Infinity (an absent maxRuns compares like
\* Infinity in _next and is set to Infinity by schedule)
Infinity == [inf |-> TRUE, v |-> 0]
Runs(n) == [inf |-> FALSE, v |-> n]
DecrementForgotten(maxRuns) == maxRuns
Decrement(maxRuns) == IF maxRuns.inf THEN maxRuns ELSE Runs(maxRuns.v - 1)

\* the head of _next: prev = prev || new Date(), then the startAt clamp
NextFrom(o, prev, clock) ==
    LET p == IF prev = None THEN clock ELSE prev
    IN  IF o.startAt # None /\ DateLess(p, o.startAt) THEN o.startAt ELSE p

\* the stop condition of _next
NextStopped(o) == (~o.maxRuns.inf /\ o.maxRuns.v <= 0) \/ o.kill

\* the tail of _next: !(stopAt && nextRun >= stopAt) ? nextRun : void 0
NextResultUnstopped(o, nextRun) == nextRun
NextResult(o, nextRun) ==
    IF o.stopAt # None /\ ~DateLess(nextRun, o.stopAt) THEN None ELSE nextRun

\* Cron.prototype._next
InternalNext(o, pattern, prev, clock) ==
    IF NextStopped(o) THEN None
    ELSE With(CronDate(NextFrom(o, prev, clock)),
              LAMBDA from :
                With(getDate(increment(from, pattern)),
                     LAMBDA nextRun : NextResult(o, nextRun)))

\* Cron.prototype.next(prev), run to its end
next(o, pattern, prev) ==
    With(InternalNext(o, pattern, prev, prev),
         LAMBDA dirtyDate :
           IF dirtyDate = None THEN None ELSE [dirtyDate EXCEPT !.ms = 0])

\* Cron.prototype.msToNext
msToNextFromClamped(o, pattern, prev, clock) ==
    LET p == IF prev = None THEN clock ELSE prev
    IN  With(InternalNext(o, pattern, p, clock),
             LAMBDA upcoming :
               IF upcoming # None
               THEN Some(DateMinus(upcoming, NextFrom(o, prev, clock)))
               ELSE None)
msToNext(o, pattern, prev, clock) ==
    LET p == IF prev = None THEN clock ELSE prev
    IN  With(InternalNext(o, pattern, p, clock),
             LAMBDA upcoming :
               IF upcoming # None THEN Some(DateMinus(upcoming, p)) ELSE None)

\* Cron.prototype.validateOpts: startAt is replaced by the instant one
\* millisecond before it, stopAt is kept (a Date)
validateOpts(o) ==
    IF o.startAt # None THEN [o EXCEPT !.startAt = DatePlusMs(@, -1)] ELSE o

\* -------------------------------------------------------------- inputs

\* pattern text: six fields joined by one space
Sp(f) ==
    f[1] \o <<" ">> \o f[2] \o <<" ">> \o f[3] \o <<" ">> \o f[4] \o <<" ">>
         \o f[5] \o <<" ">> \o f[6]

Star == <<"*">>
Zero == <<"0">>

TextEverySecond   == Sp(<<Star, Star, Star, Star, Star, Star>>)
TextMondays       == Sp(<<Star, Star, Star, Star, Star, <<"1">>>>)
TextMidnightFriSat == Sp(<<Zero, Zero, Zero, Star, Star, <<"5", ",", "6">>>>)
TextFeb31         == Sp(<<Star, Star, Star, <<"3", "1">>, <<"2">>, Star>>)
TextDay31         == Sp(<<Zero, Zero, Zero, <<"3", "1">>, Star, Star>>)
TextEvery5thDay   == Sp(<<Star, Star, Star, <<"*", "/", "5">>, Star, Star>>)
TextJune          == Sp(<<Star, Star, Star, Star, <<"6">>, Star>>)
TextYearly        == Sp(<<Zero, Zero, Zero, <<"1">>, <<"1", "2">>, Star>>)
TextHalfPast      == Sp(<<<<"0", "-", "4">>, <<"3", "0">>, Star, Star, Star, Star>>)
TextNoSecond      == Sp(<<<<",">>, Star, Star, Star, Star, Star>>)
TextNoWeekday     == Sp(<<Star, Star, Star, Star, Star, <<",">>>>)
TextSunday7       == <<" ">> \o Sp(<<Zero, Zero, <<"1", "2">>, Star, Star, <<"7">>>>)
TextSatSun7       == Sp(<<Zero, Zero, Zero, Star, Star, <<"6", ",", "7">>>>)

NextTexts ==
    {TextEverySecond, TextMondays, TextMidnightFriSat, TextFeb31, TextDay31,
     TextEvery5thDay, TextJune, TextYearly, TextHalfPast, TextNoSecond,
     TextNoWeekday, TextSunday7, TextSatSun7}

\* reference instants: a Saturday noon, a month end, a year end, a leap day
RefDates ==
    {NewDate(2022, 0, 1, 12, 34, 56, 0),
     NewDate(2022, 0, 31, 12, 0, 0, 500),
     NewDate(2022, 1, 1, 0, 0, 0, 0),
     NewDate(2022, 3, 30, 23, 59, 59, 0),
     NewDate(2022, 11, 31, 23, 59, 59, 999),
     NewDate(2024, 1, 28, 12, 30, 4, 0)}

\* options of new Cron(pattern, options) as the caller writes them
PlainOptions ==
    [paused |-> FALSE, kill |-> FALSE, maxRuns |-> Infinity, previous |-> None,
     startAt |-> None, stopAt |-> None, currentTimeout |-> 0]

NextOptions ==
    {PlainOptions,
     [PlainOptions EXCEPT !.maxRuns = Runs(0)],
     [PlainOptions EXCEPT !.startAt = NewDate(2022, 1, 1, 0, 0, 0, 0)],
     [PlainOptions EXCEPT !.stopAt = NewDate(2022, 1, 1, 0, 0, 0, 0)]}

\* calls of next in one run of the advancer model
MaxCalls == 3
\* passes of the cascade that carry, and of the weekday loop, followed in
\* one call (both loops are unbounded in the code)
MaxCarries == 7
MaxDayBumps == 8

\* --------------------------------------------------------------- state

VARIABLES
    ask,       \* the expression as the caller composed it, field by field
    text,      \* the pattern text given to new Cron
    pattern,   \* this.pattern: the compiled CronPattern, or raised
    opts,      \* this.opts
    ref,       \* the argument of the running or last call of next
    self,      \* the CronDate of the running call
    doing,     \* increment's index into toDo
    pc,        \* where the call of next is
    result,    \* what the last call of next returned
    carries,   \* passes of the cascade loop that carried, in this call
    dayBumps,  \* passes of the weekday loop, in this call
    nexts,     \* calls of next made
    now,       \* the host's clock, new Date()
    timers,    \* the host's pending timeouts, set by setTimeout
    handles,   \* timeouts created so far (the next handle is handles + 1)
    job,       \* schedule returned the control functions to the caller
    delayCap,  \* _maxDelay of schedule: self.maxDelay || maxDelay
    given,     \* the options as the caller wrote them
    invoked,   \* calls of the user's function made by the timer
    fires,     \* timeouts that have fired
    skips,     \* fires that skipped the user's function because of paused
    inFlight,  \* calls of the user's function that have not resolved yet
    second,    \* what a call of schedule on an instance with a job made
    last       \* the last operation: its name and the timeout that fired

advancerVars == <<ref, self, doing, pc, result, carries, dayBumps, nexts>>
driverVars ==
    <<now, timers, handles, job, delayCap, given, invoked, fires, skips,
      inFlight, second, last>>
vars == <<ask, text, pattern, opts, advancerVars, driverVars>>

\* the caller wrote the text directly
NoAsk == <<>>

NoCronDate == CronDate(NewDate(1970, 0, 1, 0, 0, 0, 0))

AdvancerIdle ==
    /\ ref = None
    /\ self = NoCronDate
    /\ doing = 0
    /\ result = None
    /\ carries = 0
    /\ dayBumps = 0
    /\ nexts = 0

NoTimer == [id |-> 0]

\* schedule has not been called on an instance that has a job
NoJob == [armed |-> FALSE]

\* no job: the instance was built without a function
DriverIdle ==
    /\ now = NewDate(2022, 0, 1, 0, 0, 0, 0)
    /\ timers = {}
    /\ handles = 0
    /\ job = FALSE
    /\ delayCap = 0
    /\ given = opts
    /\ invoked = 0
    /\ fires = 0
    /\ skips = 0
    /\ inFlight = 0
    /\ second = NoJob
    /\ last = [op |-> "new", timer |-> NoTimer]

\* ------------------------------------------------- next, pass by pass

\* new Cron(pattern, options) without a function
InitNext ==
    /\ ask = NoAsk
    /\ text \in NextTexts
    /\ pattern = CronPattern(text)
    /\ opts \in {validateOpts(o) : o \in NextOptions}
    /\ pc = IF pattern.raised THEN "raised" ELSE "idle"
    /\ AdvancerIdle
    /\ DriverIdle

\* next(prev) is entered: the clamp, the stop condition, new CronDate(prev)
\* and the first two statements of increment
Enter(prev) ==
    /\ ref' = prev
    /\ nexts' = nexts + 1
    /\ carries' = 0
    /\ dayBumps' = 0
    /\ doing' = 0
    /\ IF NextStopped(opts)
       THEN /\ result' = None
            /\ pc' = "done"
            /\ self' = self
       ELSE /\ result' = result
            /\ pc' = "cascade"
            /\ self' = IncrementStart(CronDate(NextFrom(opts, prev, prev)))
    /\ UNCHANGED <<ask, text, pattern, opts, driverVars>>

CallNext(prev) ==
    /\ pc = "idle"
    /\ Enter(prev)

\* the next call of an iteration: next(the instant just returned)
CallNextAgain ==
    /\ pc = "done"
    /\ result # None
    /\ nexts < MaxCalls
    /\ Enter(result)

\* one pass of while(doing < 5)
CascadePass ==
    /\ pc = "cascade"
    /\ doing < 5
    /\ carries < MaxCarries
    /\ LET n == CascadeStep(self, doing, pattern)
       IN  /\ self' = n.self
           /\ doing' = n.doing
           /\ carries' = IF n.carried THEN carries + 1 ELSE carries
    /\ UNCHANGED <<ask, text, pattern, opts, ref, pc, result, dayBumps, nexts,
                   driverVars>>

CascadeDone ==
    /\ pc = "cascade"
    /\ doing >= 5
    /\ pc' = "weekday"
    /\ UNCHANGED <<ask, text, pattern, opts, ref, self, doing, result, carries,
                   dayBumps, nexts,
                   driverVars>>

\* one pass of the weekday loop: this.days += 1
WeekdayPass ==
    /\ pc = "weekday"
    /\ ~WeekdayMatches(self, pattern)
    /\ dayBumps < MaxDayBumps
    /\ self' = [self EXCEPT !.days = @ + 1]
    /\ dayBumps' = dayBumps + 1
    /\ UNCHANGED <<ask, text, pattern, opts, ref, doing, pc, result, carries, nexts,
                   driverVars>>

\* as if the Date next strips the milliseconds of were the startAt of the
\* options
ReturnStrippingStartAt ==
    /\ pc = "weekday"
    /\ WeekdayMatches(self, pattern)
    /\ result' = LET r == NextResult(opts, getDate(self))
                 IN  IF r = None THEN None ELSE [r EXCEPT !.ms = 0]
    /\ opts' = IF opts.startAt = None THEN opts
               ELSE [opts EXCEPT !.startAt = [@ EXCEPT !.ms = 0]]
    /\ pc' = "done"
    /\ UNCHANGED <<ask, text, pattern, ref, self, doing, carries, dayBumps,
                   nexts,
                   driverVars>>

\* increment returns; _next converts and applies stopAt; next strips the
\* milliseconds
Return ==
    /\ pc = "weekday"
    /\ WeekdayMatches(self, pattern)
    /\ result' = LET r == NextResult(opts, getDate(self))
                 IN  IF r = None THEN None ELSE [r EXCEPT !.ms = 0]
    /\ pc' = "done"
    /\ UNCHANGED <<ask, text, pattern, opts, ref, self, doing, carries, dayBumps,
                   nexts,
                   driverVars>>

NextNext ==
    \/ \E prev \in RefDates : CallNext(prev)
    \/ CallNextAgain
    \/ CascadePass
    \/ CascadeDone
    \/ WeekdayPass
    \/ Return

SpecNext == InitNext /\ [][NextNext]_vars


\* ------------------------------------------- what an expression accepts
\* The reference the claims about next are stated against: the acceptance
\* sets as values of the fields' domains, and the first accepted instant
\* after a reference instant found by scanning the calendar day by day.

On(arr) == {i \in 0..(Length(arr) - 1) : arr[i] = 1}

SecondSet(p)  == On(p.seconds)
MinuteSet(p)  == On(p.minutes)
HourSet(p)    == On(p.hours)
DaySet(p)     == {i + 1 : i \in On(p.days)}
MonthSet(p)   == {i + 1 : i \in On(p.months)}
WeekdaySet(p) == On(p.daysOfWeek)

MinOf(S) == CHOOSE x \in S : \A y \in S : x <= y

\* the calendar day numbered day (days since 1970-01-01) is accepted
DayAccepted(p, day) ==
    LET c == CivilFromDays(day)
    IN  /\ c.m \in MonthSet(p)
        /\ c.d \in DaySet(p)
        /\ (day + 4) % 7 \in WeekdaySet(p)

\* the instant d (a whole second) is accepted
Accepts(p, d) ==
    LET c == CronDate(d)
    IN  /\ d.ms = 0
        /\ c.seconds \in SecondSet(p)
        /\ c.minutes \in MinuteSet(p)
        /\ c.hours \in HourSet(p)
        /\ DayAccepted(p, d.t \div 86400)

\* the first accepted second of a day after h:m:s (-1: none); h = -1 asks
\* for the first accepted second of the day
FirstTimeAfter(p, h, m, s) ==
    LET H  == HourSet(p)
        M  == MinuteSet(p)
        S  == SecondSet(p)
        s1 == {x \in S : x > s}
        m1 == {x \in M : x > m}
        h1 == {x \in H : x > h}
    IN  IF h \in H /\ m \in M /\ s1 # {}
        THEN h * 3600 + m * 60 + MinOf(s1)
        ELSE IF h \in H /\ m1 # {} /\ S # {}
        THEN h * 3600 + MinOf(m1) * 60 + MinOf(S)
        ELSE IF h1 # {} /\ M # {} /\ S # {}
        THEN MinOf(h1) * 3600 + MinOf(M) * 60 + MinOf(S)
        ELSE -1

\* the first accepted instant of the days day..lastDay (None: there is none)
FirstAcceptedFrom(p, day, lastDay) ==
    LET days == {d \in day..lastDay : DayAccepted(p, d)}
    IN  IF days = {} \/ FirstTimeAfter(p, -1, 0, 0) < 0 THEN None
        ELSE [t |-> MinOf(days) * 86400 + FirstTimeAfter(p, -1, 0, 0), ms |-> 0]

\* the smallest accepted instant strictly after r, looking no further than
\* the day lastDay (None: there is none up to that day)
FirstAcceptedAfter(p, r, lastDay) ==
    LET day  == r.t \div 86400
        c    == CronDate(r)
        same == IF DayAccepted(p, day)
                THEN FirstTimeAfter(p, c.hours, c.minutes, c.seconds)
                ELSE -1
    IN  IF day > lastDay THEN None
        ELSE IF same >= 0 THEN [t |-> day * 86400 + same, ms |-> 0]
        ELSE FirstAcceptedFrom(p, day + 1, lastDay)

\* the longest a month of the calendar ever is
LongestMonth(m) ==
    IF m = 2 THEN 29 ELSE IF m \in {4, 6, 9, 11} THEN 30 ELSE 31

\* no accepted day of the month exists in any accepted month, in any year
NeverCoincide(p) ==
    /\ DaySet(p) # {}
    /\ MonthSet(p) # {}
    /\ \A m \in MonthSet(p) : \A d \in DaySet(p) : d > LongestMonth(m)

\* a call of next has returned an instant
Returned == pc = "done" /\ result # None

\* ----------------------------------------------------------- the claims

\* C1: for every compiled expression and reference instant r, next(r) is
\* the smallest accepted instant strictly after r (no startAt configured).
C1_NextIsSmallestAccepted ==
    (Returned /\ opts.startAt = None)
        => result = FirstAcceptedAfter(pattern, ref, result.t \div 86400)

\* C2: the month and the day of the month of every instant next returns are
\* in the month and the day-of-month acceptance sets.
C2_MonthAndDayAccepted ==
    Returned =>
        LET c == CronDate(result)
        IN  c.months + 1 \in MonthSet(pattern) /\ c.days \in DaySet(pattern)

\* C3: next(r) is none or an instant strictly greater than r.
C3_NextAfterReference ==
    Returned => DateLess(ref, result)

\* C4: when the day-of-month and month sets never coincide in any year,
\* next returns none.
C4_NeverCoincideIsNone ==
    (pc = "done" /\ NeverCoincide(pattern)) => result = None

\* C5: a call of next makes a bounded number of field increments: the
\* cascade carries at most once per member of toDo and the weekday loop
\* moves on by less than a week.
C5_BoundedIncrements ==
    carries <= Len(toDo) /\ dayBumps <= 6


\* ------------------------------------------------------------- the job

TextEvery2Seconds == Sp(<<<<"*", "/", "2">>, Star, Star, Star, Star, Star>>)

DriverTexts == {TextEverySecond, TextEvery2Seconds}

\* the clock when the job is created
StartClocks ==
    {NewDate(2022, 0, 1, 0, 0, 0, 0), NewDate(2022, 0, 1, 0, 0, 0, 250)}

\* options of Cron(pattern, options, fn) as the caller writes them
DriverOptions ==
    {[PlainOptions EXCEPT !.maxRuns = r, !.paused = p] :
        r \in {Infinity, Runs(0), Runs(1), Runs(2)}, p \in BOOLEAN}
    \cup {[PlainOptions EXCEPT !.startAt = NewDate(2022, 0, 1, 0, 0, 2, 0)],
          [PlainOptions EXCEPT !.stopAt = NewDate(2022, 0, 1, 0, 0, 3, 0)]}

\* self.maxDelay || maxDelay: the default, or what a test sets in its place
DelayCaps == {maxDelay, 1500, 1000}

\* what the user's function does when the timer calls it ("async": it
\* returns a promise that is still pending; the callback goes on as for
\* "return")
CallbackKinds == {"return", "stop", "pause", "throw"}

\* timeouts followed in one run of the job model
MaxFires == 5
\* milliseconds by which the host may fire a timeout late
MaxLate == 1

LaterOf(a, b) == IF DateLess(a, b) THEN b ELSE a

\* clearTimeout(handle)
clearTimeoutNothing(pending, handle) == pending
clearTimeout(pending, handle) == {t \in pending : t.id # handle}

\* this.opts as _next reads it under schedule: self.opts = validateOpts(opts)
\* is assigned before this.msToNext is called, so it is the options object
\* of the job that is scheduling
ThisOptsOfFirst(v) == opts
ThisOpts(v) == v

\* Cron.prototype.schedule(opts, func) at the time clock, with cap for
\* _maxDelay and handle for what setTimeout returns: the options after the
\* call and the timeout it sets, if any.  computed is waitMs as msToNext
\* returned it, waitMs the delay given to setTimeout.  The options of the
\* model always carry paused, kill and maxRuns, so the defaults are in place.
schedule(o, p, clock, cap, handle) ==
    With(validateOpts(o), LAMBDA v :
    With(msToNext(ThisOpts(v), p, v.previous, clock), LAMBDA computed :
      LET waitMs == IF computed.v > cap THEN cap ELSE computed.v
      IN  IF computed = None
          THEN [opts |-> v, armed |-> FALSE, timer |-> NoTimer]
          ELSE [opts  |-> [v EXCEPT !.currentTimeout = handle],
                armed |-> TRUE,
                timer |-> [id       |-> handle,
                           due      |-> DatePlusMs(clock,
                                            IF waitMs < 0 THEN 0 ELSE waitMs),
                           waitMs   |-> waitMs,
                           cap      |-> cap,
                           computed |-> computed.v]]))

\* the test of the timer callback: if( waitMs !== _maxDelay )
IsRunAlways(t) == TRUE
IsRun(t) == t.waitMs # t.cap

\* the timer callback calls func: if( waitMs !== _maxDelay ) if( !opts.paused )
ShouldCallIgnoringPause(o, t) == IsRun(t)
ShouldCall(o, t) == IsRun(t) /\ ~o.paused

\* the control functions schedule returns
stopWithoutClear(o, pending) ==
    [opts |-> [o EXCEPT !.kill = TRUE], pending |-> pending]
stop(o, pending) ==
    [opts    |-> [o EXCEPT !.kill = TRUE],
     pending |-> IF o.currentTimeout # 0
                 THEN clearTimeout(pending, o.currentTimeout)
                 ELSE pending]

pause(o) == [o EXCEPT !.paused = TRUE]

resume(o) == [o EXCEPT !.paused = FALSE]

\* what the two return: (opts.paused = true) && !opts.kill and
\* !(opts.paused = false) && !opts.kill
pauseReturnsFlag(o) == o.paused /\ ~o.kill
pauseReturns(o) == pause(o).paused /\ ~pause(o).kill

resumeReturnsFlag(o) == ~o.paused /\ ~o.kill
resumeReturns(o) == ~resume(o).paused /\ ~resume(o).kill

\* Cron(pattern, options, fn): validateOpts in the constructor, then schedule
Init ==
    /\ ask = NoAsk
    /\ text \in DriverTexts
    /\ pattern = CronPattern(text)
    /\ given \in DriverOptions
    /\ delayCap \in DelayCaps
    /\ now \in StartClocks
    /\ \E s \in {schedule(validateOpts(given), pattern, now, delayCap, 1)} :
           /\ opts = s.opts
           /\ timers = IF s.armed THEN {s.timer} ELSE {}
           /\ handles = IF s.armed THEN 1 ELSE 0
           /\ job = s.armed
    /\ invoked = 0
    /\ fires = 0
    /\ skips = 0
    /\ inFlight = 0
    /\ second = NoJob
    /\ last = [op |-> "new", timer |-> NoTimer]
    /\ pc = "idle"
    /\ AdvancerIdle

\* the host fires the timeout t, late ms after it is due, and runs the
\* callback schedule gave it; cb is what the user's function does if called
Fire(t, late, cb) ==
    /\ t \in timers
    /\ fires < MaxFires
    /\ LET clock   == LaterOf(now, DatePlusMs(t.due, late))
           pending == timers \ {t}
           runs    == ShouldCall(opts, t)
           counted == [opts EXCEPT !.maxRuns = Decrement(@)]
           called  == IF ~runs THEN [opts |-> opts, pending |-> pending]
                      ELSE IF cb = "stop" THEN stop(counted, pending)
                      ELSE IF cb = "pause"
                           THEN [opts |-> pause(counted), pending |-> pending]
                      ELSE [opts |-> counted, pending |-> pending]
           stamped == IF IsRun(t) THEN [called.opts EXCEPT !.previous = clock]
                      ELSE called.opts
       IN  /\ runs \/ cb = "return"
           /\ now' = clock
           /\ fires' = fires + 1
           /\ invoked' = IF runs THEN invoked + 1 ELSE invoked
           /\ skips' = IF IsRun(t) /\ ~runs THEN skips + 1 ELSE skips
           /\ inFlight' = IF runs /\ cb = "async" THEN inFlight + 1
                          ELSE inFlight
           /\ IF runs /\ cb = "throw"
              THEN /\ opts' = called.opts
                   /\ timers' = called.pending
                   /\ handles' = handles
                   /\ last' = [op |-> "threw", timer |-> t]
              ELSE \E s \in {schedule(stamped, pattern, clock, delayCap,
                                      handles + 1)} :
                   /\ opts' = s.opts
                   /\ timers' = called.pending
                                   \cup (IF s.armed THEN {s.timer} ELSE {})
                   /\ handles' = IF s.armed THEN handles + 1 ELSE handles
                   /\ last' = [op    |-> IF runs THEN "ran"
                                         ELSE IF IsRun(t) THEN "skipped"
                                         ELSE "blank",
                               timer |-> t]
    /\ UNCHANGED <<ask, text, pattern, job, delayCap, given, second, advancerVars>>

\* the caller uses the control functions
Stop ==
    /\ job
    /\ \E stopped \in {stop(opts, timers)} :
           /\ opts' = stopped.opts
           /\ timers' = stopped.pending
    /\ last' = [op |-> "stop", timer |-> NoTimer]
    /\ UNCHANGED <<ask, text, pattern, now, handles, job, delayCap, given, invoked,
                   fires, skips, inFlight, second, advancerVars>>

Pause ==
    /\ job
    /\ opts' = pause(opts)
    /\ last' = [op |-> "pause", timer |-> NoTimer,
                returned |-> pauseReturns(opts)]
    /\ UNCHANGED <<ask, text, pattern, now, timers, handles, job, delayCap, given,
                   invoked, fires, skips, inFlight, second, advancerVars>>

Resume ==
    /\ job
    /\ opts' = resume(opts)
    /\ last' = [op |-> "resume", timer |-> NoTimer,
                returned |-> resumeReturns(opts)]
    /\ UNCHANGED <<ask, text, pattern, now, timers, handles, job, delayCap, given,
                   invoked, fires, skips, inFlight, second, advancerVars>>

Next ==
    \/ \E t \in timers : \E late \in 0..MaxLate : \E cb \in CallbackKinds :
           Fire(t, late, cb)
    \/ Stop
    \/ Pause
    \/ Resume

Spec == Init /\ [][Next]_vars


\* a step in which a timeout fired; last'.timer is that timeout
Fired == fires' = fires + 1

\* C6: a job created with maxRuns = n has its function called at most n
\* times by the timer; every call made (none on a paused fire) takes one
\* from maxRuns, and at zero no timeout is pending.
C6_MaxRunsLimitsCalls ==
    ~given.maxRuns.inf =>
        /\ invoked <= given.maxRuns.v
        /\ opts.maxRuns = Runs(given.maxRuns.v - invoked)
        /\ (opts.maxRuns.v <= 0 => timers = {})

C6_Witness ==
    /\ given.maxRuns = Runs(2)
    /\ invoked = 2
    /\ skips > 0
    /\ timers = {}

\* C7: once stop() has been called no timeout is pending, none is set
\* again and the timer calls the function no more, whatever pause() and
\* resume() follow; a stop() from inside the running call lets the call
\* end and suppresses the timeout that would follow it.
C7_StopIsTerminal ==
    /\ [](opts.kill => timers = {})
    /\ [][opts.kill =>
             (opts'.kill /\ invoked' = invoked /\ handles' = handles)]_vars

\* the function called stop() while the timer was running it
C7_Witness ==
    /\ opts.kill
    /\ last.op = "ran"
    /\ invoked > 1
    /\ opts.previous = now

\* C8: a fire while paused does not call the function and (with no stopAt
\* to end the job) sets the timeout for the following occurrence; a fire
\* at an occurrence while not paused calls it.
C8_PausedFiresSkip ==
    [][Fired =>
          /\ opts.paused =>
                (invoked' = invoked /\ (opts.stopAt = None => timers' # {}))
          /\ (~opts.paused /\ last'.timer.computed < last'.timer.cap) =>
                invoked' = invoked + 1]_vars

\* resumed: the function runs after a fire that skipped it
C8_Witness ==
    /\ skips > 0
    /\ last.op = "ran"
    /\ ~given.paused

\* C9: when the next occurrence of a job that is not paused is further away
\* than the maximum delay, every checkpoint fire sets a timeout with a
\* smaller remaining delay, so the occurrence is reached.
C9_CheckpointsShrink ==
    [][(Fired /\ ~opts.paused /\ last'.timer.computed > last'.timer.cap) =>
          \E t \in timers' : t.computed < last'.timer.computed]_vars

\* C10: the fire of a timeout set with the clamped maximum delay, the true
\* delay being larger, neither calls the function nor sets previous.
C10_ClampedFireIsBlank ==
    [][(Fired /\ last'.timer.computed > last'.timer.cap) =>
          (invoked' = invoked /\ opts'.previous = opts.previous)]_vars

C10_Witness ==
    /\ last.op = "blank"
    /\ last.timer.computed > last.timer.cap
    /\ ~opts.paused
    /\ invoked > 0

\* C11: when the user's function throws during a call made by the timer,
\* the job goes on: unless it was stopped, maxRuns is used up or stopAt ends
\* it, a timeout for the following occurrence is set after the failing call.
C11_ThrowKeepsScheduling ==
    [][(Fired /\ last'.op = "threw" /\ ~opts'.kill /\ opts.stopAt = None
           /\ (opts'.maxRuns.inf \/ opts'.maxRuns.v > 0)) =>
          timers' # {}]_vars


\* ------------------------------------------- compiling an expression
\* new CronPattern(text) on expressions composed atom by atom.

\* an atom of a field: *, a number, N-M, */S, and two malformed ones: the
\* empty list element and **
Atom(kind, a, b) == [kind |-> kind, a |-> a, b |-> b]
AStar == Atom("star", 0, 0)
AEmpty == Atom("empty", 0, 0)
AStars == Atom("stars", 0, 0)
ANum(n) == Atom("num", n, 0)
ARange(n, m) == Atom("range", n, m)
AStep(s) == Atom("step", s, 0)

DigitChar(n) ==
    CASE n = 0 -> "0" [] n = 1 -> "1" [] n = 2 -> "2" [] n = 3 -> "3"
      [] n = 4 -> "4" [] n = 5 -> "5" [] n = 6 -> "6" [] n = 7 -> "7"
      [] n = 8 -> "8" [] n = 9 -> "9"

\* the decimal text of a number below 100, as the caller writes it
NumberText(n) ==
    IF n < 10 THEN <<DigitChar(n)>>
    ELSE <<DigitChar(n \div 10), DigitChar(n % 10)>>

AtomText(x) ==
    CASE x.kind = "star"  -> <<"*">>
      [] x.kind = "stars" -> <<"*", "*">>
      [] x.kind = "empty" -> <<>>
      [] x.kind = "num"   -> NumberText(x.a)
      [] x.kind = "range" -> NumberText(x.a) \o <<"-">> \o NumberText(x.b)
      [] x.kind = "step"  -> <<"*", "/">> \o NumberText(x.a)

\* a field: its atoms joined by commas
RECURSIVE ConfText(_)
ConfText(atoms) ==
    IF Len(atoms) = 1 THEN AtomText(atoms[1])
    ELSE AtomText(Head(atoms)) \o <<",">> \o ConfText(Tail(atoms))

AskText(a) == Sp([f \in 1..6 |-> ConfText(a[f])])

\* the fields in the order of the text: second, minute, hour, day of the
\* month, month, day of the week; the least and greatest value of each
Fields == 1..6
FieldMin(f) == IF f \in {4, 5} THEN 1 ELSE 0
FieldMax(f) ==
    CASE f = 1 -> 59 [] f = 2 -> 59 [] f = 3 -> 23
      [] f = 4 -> 31 [] f = 5 -> 12 [] f = 6 -> 7

Everything == [f \in Fields |-> <<AStar>>]
OneField(f, atoms) == [Everything EXCEPT ![f] = atoms]

\* the numbers written in the atoms: the ends of the domains and the
\* numbers next to them
Numbers == {0, 1, 7, 8, 12, 13, 23, 24, 31, 32, 59, 60}
Steppings == {0, 1, 2, 5, 8, 9, 12, 13, 24, 25, 31, 32, 60, 61}

Atoms ==
    {AStar, AEmpty, AStars}
        \cup {ANum(n) : n \in Numbers}
        \cup {ARange(n, m) : n \in {0, 1, 3}, m \in Numbers \ {0}}
        \cup {AStep(k) : k \in Steppings}

ListAtoms == {ANum(0), ANum(1), ANum(60), AEmpty, ARange(1, 3), AStar}

Confs ==
    {<<x>> : x \in Atoms} \cup {<<x, y>> : x \in ListAtoms, y \in ListAtoms}

\* the day of the week together with the day of the month and the month
Combined ==
    {[Everything EXCEPT ![4] = d, ![5] = m, ![6] = w] :
        d \in {<<AStar>>, <<ANum(1)>>, <<AStep(1)>>},
        m \in {<<AStar>>, <<ANum(11)>>},
        w \in {<<AStar>>, <<ANum(4)>>, <<ARange(1, 5)>>, <<AStep(1)>>}}

\* 0 0 0 1 11 4
Thursday1Nov ==
    [f \in Fields |->
        CASE f \in 1..3 -> <<ANum(0)>> [] f = 4 -> <<ANum(1)>>
          [] f = 5 -> <<ANum(11)>> [] f = 6 -> <<ANum(4)>>]

ParseAsks ==
    {OneField(f, c) : f \in Fields, c \in Confs}
        \cup Combined \cup {Thursday1Nov}

\* the six arrays as the constructor fills them, before parse()
NoPattern ==
    [raised     |-> FALSE,
     seconds    |-> fill(60),
     minutes    |-> fill(60),
     hours      |-> fill(24),
     days       |-> fill(31),
     months     |-> fill(12),
     daysOfWeek |-> fill(8)]

\* expressions written as text: the aliases in lower, upper and mixed case,
\* a name that is no alias, and ISO 8601 datetimes, local and UTC
AliasYearly == <<"@", "y", "e", "a", "r", "l", "y">>
AliasAnnually == <<"@", "a", "n", "n", "u", "a", "l", "l", "y">>
AliasMonthly == <<"@", "m", "o", "n", "t", "h", "l", "y">>
AliasWeekly == <<"@", "w", "e", "e", "k", "l", "y">>
AliasDaily == <<"@", "d", "a", "i", "l", "y">>
AliasHourly == <<"@", "h", "o", "u", "r", "l", "y">>
AliasYEARLY == <<"@", "Y", "E", "A", "R", "L", "Y">>
AliasDailyMixed == <<"@", "D", "a", "i", "l", "y">>
AliasWekly == <<"@", "w", "e", "k", "l", "y">>

AliasTexts ==
    {AliasYearly, AliasAnnually, AliasMonthly, AliasWeekly, AliasDaily,
     AliasHourly, AliasYEARLY, AliasDailyMixed}

UnknownAliasTexts == {AliasWekly}

TextIso2020 ==
    <<"2", "0", "2", "0", "-", "0", "1", "-", "0", "1", "T",
      "0", "0", ":", "0", "0", ":", "0", "0">>
TextIso2200 ==
    <<"2", "2", "0", "0", "-", "0", "1", "-", "0", "1", "T",
      "0", "0", ":", "0", "0", ":", "0", "0">>
TextIso2200Z == TextIso2200 \o <<"Z">>

IsoTexts == {TextIso2020, TextIso2200, TextIso2200Z}

WrittenTexts == AliasTexts \cup UnknownAliasTexts \cup IsoTexts

InitParse ==
    /\ \/ ask \in ParseAsks /\ text = AskText(ask)
       \/ ask = NoAsk /\ text \in WrittenTexts
    /\ pattern = NoPattern
    /\ opts = PlainOptions
    /\ pc = "composed"
    /\ AdvancerIdle
    /\ DriverIdle

\* this.parse(), to its end or to its raise
Compile ==
    /\ pc = "composed"
    /\ \E p \in {CronPattern(text)} :
           /\ pattern' = p
           /\ pc' = IF p.raised THEN "raised" ELSE "idle"
    /\ UNCHANGED <<ask, text, opts, ref, self, doing, result, carries,
                   dayBumps, nexts, driverVars>>

NextParse == Compile

SpecParse == InitParse /\ [][NextParse]_vars


\* ------------------------------------------- what was asked for
\* The reference the claims about compilation are stated against: the
\* values an atom stands for, read off the expression as it was composed.

FieldArr(p, f) ==
    CASE f = 1 -> p.seconds [] f = 2 -> p.minutes [] f = 3 -> p.hours
      [] f = 4 -> p.days [] f = 5 -> p.months [] f = 6 -> p.daysOfWeek

\* the acceptance set of a field, as values of its domain
FieldSet(p, f) == {i + FieldMin(f) : i \in On(FieldArr(p, f))}

\* 7 is Sunday, as 0 is
Canon(f, S) == IF f = 6 THEN {x % 7 : x \in S} ELSE S

InDomain(f, n) == FieldMin(f) <= n /\ n <= FieldMax(f)
DomainSize(f) == FieldMax(f) - FieldMin(f) + 1

\* new CronPattern(text) has ended on a composed expression
Compiled == ask # NoAsk /\ pc \in {"idle", "raised"}

\* field f carries the one atom of kind, every other field is *
Alone(f, kind) ==
    /\ \A g \in Fields \ {f} : ask[g] = <<AStar>>
    /\ Len(ask[f]) = 1
    /\ ask[f][1].kind = kind

OutOfDomain(f, x) ==
    \/ x.kind = "num" /\ ~InDomain(f, x.a)
    \/ x.kind = "range" /\ (~InDomain(f, x.a) \/ ~InDomain(f, x.b))

\* a well-formed atom of field f
WellFormed(f, x) ==
    \/ x.kind = "star"
    \/ x.kind = "num" /\ InDomain(f, x.a)
    \/ x.kind = "range" /\ InDomain(f, x.a) /\ InDomain(f, x.b) /\ x.a <= x.b
    \/ x.kind = "step" /\ 1 <= x.a /\ x.a <= DomainSize(f)

AllWellFormed ==
    \A f \in Fields : \A i \in 1..Len(ask[f]) : WellFormed(f, ask[f][i])

\* C12: in every field, the two 1-based ones included, the atom N-M with
\* N <= M inside the domain compiles to exactly the values N, N+1, .. M.
C12_RangeIsInclusive ==
    \A f \in Fields :
        (Compiled /\ Alone(f, "range") /\ WellFormed(f, ask[f][1])) =>
            /\ ~pattern.raised
            /\ Canon(f, FieldSet(pattern, f))
                   = Canon(f, ask[f][1].a .. ask[f][1].b)

\* C13: in every field, the atom */S with 1 <= S <= the size of the domain
\* compiles to exactly min, min+S, min+2S, .. of the domain.
C13_StepsStartAtMinimum ==
    \A f \in Fields :
        (Compiled /\ Alone(f, "step") /\ WellFormed(f, ask[f][1])) =>
            /\ ~pattern.raised
            /\ Canon(f, FieldSet(pattern, f))
                   = Canon(f, {v \in FieldMin(f)..FieldMax(f) :
                                 (v - FieldMin(f)) % ask[f][1].a = 0})

\* C14: after a successful compilation each of the six acceptance sets
\* holds at least one value of its domain.
C14_SetsNotEmpty ==
    (Compiled /\ ~pattern.raised) =>
        \A f \in Fields : FieldSet(pattern, f) # {}

\* C15: compilation raises whenever a number or a bound of a range lies
\* outside the domain of its field, wherever it stands in a comma list.
C15_OutOfDomainRaises ==
    (Compiled /\ \E f \in Fields : \E i \in 1..Len(ask[f]) :
                     OutOfDomain(f, ask[f][i]))
        => pattern.raised

\* a number outside the domain in the second place of a list, and a range
\* whose lower bound is below a 1-based domain
C15_Witness ==
    /\ pc = "raised"
    /\ ask \in {OneField(3, <<ANum(1), ANum(60)>>),
                 OneField(4, <<ARange(0, 7)>>)}

\* C16: compilation raises for every field that is not a comma list of
\* well-formed atoms: an empty list element, or ** .
C16_MalformedRaises ==
    (Compiled /\ \E f \in Fields : \E i \in 1..Len(ask[f]) :
                     ask[f][i].kind \in {"empty", "stars"})
        => pattern.raised

C18_BothDayFieldsCompile ==
    (Compiled /\ AllWellFormed /\ ask[4] # <<AStar>> /\ ask[6] # <<AStar>>)
        => ~pattern.raised


\* ------------------------------------------- the day of the week

\* the fields of the pattern text
Parts(t) == Split(CollapseSpaces(Trim(t)), " ")

\* the text with 0 written for every 7 of the day-of-week field
ZeroForSeven(t) ==
    LET parts == Parts(t)
    IN  Sp([f \in Fields |->
               IF f = 6
               THEN [i \in DOMAIN parts[6] |->
                        IF parts[6][i] = "7" THEN "0" ELSE parts[6][i]]
               ELSE parts[f]])

C20_SevenIsSunday ==
    /\ (~pattern.raised /\ pattern.daysOfWeek[7] = 1)
           => pattern.daysOfWeek[0] = 1
    /\ (pc = "done" /\ "7" \in Range(Parts(text)[6]))
           => result = next(opts, CronPattern(ZeroForSeven(text)), ref)

\* a Sunday returned for the 7 of 6,7 , after the Saturday of the 6
C20_Witness ==
    /\ Returned
    /\ text = TextSatSun7
    /\ nexts > 1
    /\ getDay(result) = 0
    /\ pattern.daysOfWeek[7] = 1


\* ------------------------------------------- startAt, stopAt, msToNext

\* options.startAt as the caller gave it: validateOpts keeps the instant
\* one millisecond before it
StartAtGiven == DatePlusMs(opts.startAt, 1)

\* C21: with startAt configured, next(from) for a from earlier than startAt
\* is the smallest accepted instant greater than or equal to startAt: an
\* accepted instant equal to startAt is returned, none before it ever is.
C21_StartAtClamps ==
    (Returned /\ opts.startAt # None /\ DateLess(ref, StartAtGiven)) =>
        /\ ~DateLess(result, StartAtGiven)
        /\ result = FirstAcceptedAfter(pattern, opts.startAt,
                                       result.t \div 86400)

\* C22: with stopAt configured next never returns an instant at or after
\* stopAt: it returns none whenever the occurrence it computed is greater
\* than or equal to stopAt, from every reference instant.
C22_StopAtEnds ==
    (pc = "done" /\ opts.stopAt # None /\ ~NextStopped(opts)) =>
        /\ result # None => DateLess(result, opts.stopAt)
        /\ result = None <=> ~DateLess(getDate(self), opts.stopAt)

\* none, from a reference instant before stopAt
C22_Witness ==
    /\ pc = "done"
    /\ opts.stopAt # None
    /\ DateLess(ref, opts.stopAt)
    /\ result = None

\* seconds between two instants whose difference in milliseconds the
\* integers of the model hold
MaxSpan == 2000000

\* C23: msToNext(r) is next(r) - r in milliseconds whenever next(r) is an
\* instant, also for r earlier than startAt, and none exactly when next(r)
\* is none.
C23_MsToNextIsDifference ==
    (pc = "done" /\ (result # None => result.t - ref.t <= MaxSpan)) =>
        msToNext(opts, pattern, ref, ref)
            = IF result = None THEN None ELSE Some(DateMinus(result, ref))

\* a reference instant before startAt, off the whole second
C23_Witness ==
    /\ Returned
    /\ opts.startAt # None
    /\ DateLess(ref, opts.startAt)
    /\ ref.ms = 500
    /\ result.t - ref.t <= MaxSpan
    /\ msToNext(opts, pattern, ref, ref).v > 1000


\* ------------------------------------------- the job, continued

\* C24: pause() and resume() each return true while the job has not been
\* stopped and false once stop() has been called, whatever the paused flag.
C24_ControlsReturnNotStopped ==
    last.op \in {"pause", "resume"} => last.returned = ~opts.kill

\* pause() on a job that is paused already and was stopped by its function
C24_Witness ==
    /\ last.op = "pause"
    /\ ~last.returned
    /\ given.paused
    /\ invoked > 0

\* C25: previous() is none until the timer has completed a first call of
\* the function and is then the instant of the last completed call; a fire
\* that does not call the function (paused, or a checkpoint) leaves it alone.
C25_PreviousIsLastRun ==
    /\ [](invoked = 0 => opts.previous = None)
    /\ [][(Fired /\ invoked' = invoked) => opts'.previous = opts.previous]_vars


\* ------------------------------------------- schedule, called later
\* new Cron(pattern, options) without a function, and scheduler.schedule(fn)
\* called on the instance, once or twice.

\* options of new Cron(pattern, options)
LaterOptions ==
    {[PlainOptions EXCEPT !.maxRuns = Runs(2)],
     [PlainOptions EXCEPT !.startAt = NewDate(2022, 0, 1, 0, 0, 2, 0)],
     [PlainOptions EXCEPT !.stopAt = NewDate(2022, 0, 1, 0, 0, 3, 0)]}

\* schedule(fn): if( !func ) { func = opts; opts = {}; } and the defaults
NoOptions == PlainOptions

InitLater ==
    /\ ask = NoAsk
    /\ text \in DriverTexts
    /\ pattern = CronPattern(text)
    /\ given \in LaterOptions
    /\ opts = validateOpts(given)
    /\ delayCap = maxDelay
    /\ now \in StartClocks
    /\ timers = {}
    /\ handles = 0
    /\ job = FALSE
    /\ invoked = 0
    /\ fires = 0
    /\ skips = 0
    /\ inFlight = 0
    /\ second = NoJob
    /\ last = [op |-> "new", timer |-> NoTimer]
    /\ pc = "idle"
    /\ AdvancerIdle

\* scheduler.schedule(fn) on an instance without a job: this.opts becomes
\* the options of the call
ScheduleFn ==
    /\ ~job
    /\ last.op = "new"
    /\ \E s \in {schedule(NoOptions, pattern, now, delayCap, handles + 1)} :
           /\ opts' = s.opts
           /\ timers' = IF s.armed THEN {s.timer} ELSE {}
           /\ handles' = IF s.armed THEN handles + 1 ELSE handles
           /\ job' = s.armed
    /\ last' = [op |-> "schedule", timer |-> NoTimer]
    /\ UNCHANGED <<ask, text, pattern, now, delayCap, given, invoked, fires,
                   skips, inFlight, second, advancerVars>>

\* scheduler.schedule(fn) on an instance that has a job: the call returns
\* as the first did, with a job of its own ([armed, opts, timer]; raised
\* tells whether the call ended in a raise).  The first job, which keeps
\* its own options object, is the one followed from here.
ScheduleAgain ==
    /\ job
    /\ second = NoJob
    /\ \E s \in {schedule(NoOptions, pattern, now, delayCap, handles + 1)} :
           /\ second' = [raised |-> FALSE, armed |-> s.armed, opts |-> s.opts,
                         timer |-> s.timer]
           /\ handles' = IF s.armed THEN handles + 1 ELSE handles
    /\ last' = [op |-> "schedule", timer |-> NoTimer]
    /\ UNCHANGED <<ask, text, pattern, opts, now, timers, job, delayCap,
                   given, invoked, fires, skips, inFlight, advancerVars>>

NextLater ==
    \/ ScheduleFn
    \/ ScheduleAgain
    \/ Next

SpecLater == InitLater /\ [][NextLater]_vars

\* C26: the options an instance was constructed with are inherited by the
\* job schedule(fn) creates on it: constructed with maxRuns = n the job has
\* maxRuns n, and likewise for startAt and stopAt.
C26_OptionsInherited ==
    (job /\ last.op = "schedule" /\ second = NoJob) =>
        /\ opts.maxRuns = given.maxRuns
        /\ (opts.startAt = None) = (given.startAt = None)
        /\ opts.stopAt = given.stopAt

\* C27: a call of schedule on an instance that has a job raises and sets
\* no second timeout.
C27_SecondScheduleRaises ==
    second # NoJob => (second.raised /\ ~second.armed)


\* --------------------------------------------------- overlapping calls
\* Cron(pattern, {protect: true}, fn) with a function that is asynchronous:
\* func() returns a pending promise and the work resolves later.

\* the options as the caller writes them; schedule reads paused, kill, rest,
\* maxRuns, previous, startAt and stopAt, and no other property
ProtectOptions ==
    {[paused |-> FALSE, kill |-> FALSE, maxRuns |-> Infinity,
      previous |-> None, startAt |-> None, stopAt |-> None,
      currentTimeout |-> 0, protect |-> TRUE]}

InitProtect ==
    /\ ask = NoAsk
    /\ text \in DriverTexts
    /\ pattern = CronPattern(text)
    /\ given \in ProtectOptions
    /\ delayCap \in DelayCaps
    /\ now \in StartClocks
    /\ \E s \in {schedule(validateOpts(given), pattern, now, delayCap, 1)} :
           /\ opts = s.opts
           /\ timers = IF s.armed THEN {s.timer} ELSE {}
           /\ handles = IF s.armed THEN 1 ELSE 0
           /\ job = s.armed
    /\ invoked = 0
    /\ fires = 0
    /\ skips = 0
    /\ inFlight = 0
    /\ second = NoJob
    /\ last = [op |-> "new", timer |-> NoTimer]
    /\ pc = "idle"
    /\ AdvancerIdle

\* the timeout fires and the function called starts work that is pending
\* when the callback returns
FireAsync ==
    \E t \in timers : \E late \in 0..MaxLate : Fire(t, late, "async")

\* the work of one call resolves
Resolve ==
    /\ inFlight > 0
    /\ inFlight' = inFlight - 1
    /\ last' = [op |-> "resolved", timer |-> NoTimer]
    /\ UNCHANGED <<ask, text, pattern, opts, now, timers, handles, job,
                   delayCap, given, invoked, fires, skips, second,
                   advancerVars>>

NextProtect ==
    \/ FireAsync
    \/ Resolve
    \/ Next

SpecProtect == InitProtect /\ [][NextProtect]_vars

\* C28: with protect = true at most one call of the job's function is in
\* flight at any time: a fire that comes while an earlier call has not
\* resolved skips the function.
C28_ProtectedNeverOverlaps ==
    ("protect" \in DOMAIN given /\ given.protect) => inFlight <= 1


\* ------------------------------------- aliases and fixed instants

\* new CronPattern(text) has ended on an expression written as text
CompiledText == ask = NoAsk /\ pc \in {"idle", "raised"}

\* the six-field expression an alias stands for
AliasExpansion(t) ==
    CASE t \in {AliasYearly, AliasYEARLY, AliasAnnually}
             -> Sp(<<Zero, Zero, Zero, <<"1">>, <<"1">>, Star>>)
      [] t = AliasMonthly -> Sp(<<Zero, Zero, Zero, <<"1">>, Star, Star>>)
      [] t = AliasWeekly -> Sp(<<Zero, Zero, Zero, Star, Star, Zero>>)
      [] t \in {AliasDaily, AliasDailyMixed}
             -> Sp(<<Zero, Zero, Zero, Star, Star, Star>>)
      [] t = AliasHourly -> Sp(<<Zero, Zero, Star, Star, Star, Star>>)

\* C29: each alias (@yearly, @annually, @monthly, @weekly, @daily, @hourly,
\* in any case) compiles, and to the acceptance sets of its six-field
\* expansion, so that next gives the same instants from every reference
\* instant; any other @name raises.
C29_AliasesAreExpansions ==
    /\ (CompiledText /\ text \in AliasTexts) =>
           /\ ~pattern.raised
           /\ pattern = CronPattern(AliasExpansion(text))
    /\ (CompiledText /\ text \in UnknownAliasTexts) => pattern.raised

\* C30: an expression that is an ISO 8601 datetime compiles, to a schedule
\* of that one instant: next is none once the instant is past, and before
\* it next gives the instant and then none.  (Compiling is where it ends:
\* there is no instance to ask for next when the constructor raises.)
C30_IsoLiteralCompiles ==
    (CompiledText /\ text \in IsoTexts) => ~pattern.raised


\* ------------------------------------------- the fire, looked at closer

\* C31: when the delay to the next occurrence is exactly the maximum delay
\* (not greater), the fire of that timeout is a run: the function is called
\* at the occurrence, if the job is not paused.
C31_ExactMaximumIsARun ==
    [][(Fired /\ ~opts.paused /\ last'.timer.computed = last'.timer.cap) =>
          invoked' = invoked + 1]_vars


\* ------------------------------------------- options written from outside
\* Cron(pattern, options, fn) keeps the caller's options object: this.opts
\* and the opts of the timer callback are that object, and the caller may
\* write to it while a timeout is pending.

\* what the caller writes: options.maxRuns = 0, options.kill = true,
\* options.stopAt = new Date()
CallerWriteKinds == {"maxRuns", "kill", "stopAt"}

Written(o, w, clock) ==
    CASE w = "maxRuns" -> [o EXCEPT !.maxRuns = Runs(0)]
      [] w = "kill"    -> [o EXCEPT !.kill = TRUE]
      [] w = "stopAt"  -> [o EXCEPT !.stopAt = clock]

CallerWrites ==
    /\ job
    /\ timers # {}
    /\ last.op # "wrote"
    /\ \E w \in CallerWriteKinds : opts' = Written(opts, w, now)
    /\ last' = [op |-> "wrote", timer |-> NoTimer]
    /\ UNCHANGED <<ask, text, pattern, now, timers, handles, job, delayCap,
                   given, invoked, fires, skips, inFlight, second,
                   advancerVars>>

NextWritten ==
    \/ CallerWrites
    \/ Next

SpecWritten == Init /\ [][NextWritten]_vars

\* C32: the timer calls the function on a fire only if at that moment the
\* job is not stopped, maxRuns is above zero and stopAt has not been
\* reached, also when the options object was written to between the
\* setting of the timeout and its fire.
C32_FireChecksLimits ==
    [][(Fired /\ invoked' = invoked + 1) =>
          /\ ~opts.kill
          /\ opts.maxRuns.inf \/ opts.maxRuns.v > 0
          /\ opts.stopAt = None \/ DateLess(now', opts.stopAt)]_vars


\* C33: after any sequence of fires, pause, resume and stop a job has at
\* most one pending timeout, opts.currentTimeout is the handle of that
\* timeout, and after stop() none is pending.
C33_OneArmedTimer ==
    /\ \A a, b \in timers : a = b
    /\ \A t \in timers : t.id = opts.currentTimeout
    /\ last.op = "stop" => timers = {}

\* stop() cancelled the fourth timeout or a later one, after a paused fire
C33_Witness ==
    /\ last.op = "stop"
    /\ opts.currentTimeout >= 4
    /\ skips > 0
    /\ invoked > 0
    /\ timers = {}


\* C34: the options of a job do not change after construction: through
\* every fire and every timeout set again the startAt bound stays the
\* instant the caller gave, encoded once as one millisecond earlier, and
\* the stopAt bound stays the one given.
C34_BoundsStay ==
    /\ [](given.startAt # None =>
             opts.startAt = DatePlusMs(given.startAt, -1))
    /\ [](opts.stopAt = given.stopAt)
    /\ [][opts'.startAt = opts.startAt /\ opts'.stopAt = opts.stopAt]_vars


\* ------------------------------------------- next, looked at closer

\* C35: next (and msToNext, which is next and a subtraction) is pure: no
\* step of a call changes the acceptance sets or the options, the reference
\* instant stays what the caller passed, and what the call returns is
\* decided by the acceptance sets, the options and the reference instant
\* alone, so that a second call with the same reference returns the same.
C35_NextIsPure ==
    /\ [][/\ pattern' = pattern
          /\ opts' = opts
          /\ pc \in {"cascade", "weekday"} => ref' = ref]_vars
    /\ [](pc = "done" => result = next(opts, pattern, ref))

\* the last call of an iteration, on an instance with startAt
C35_Witness ==
    /\ Returned
    /\ nexts >= MaxCalls
    /\ opts.startAt # None
    /\ carries > 0


\* C36: when the weekday loop has moved the date on to a later day, the
\* instant returned is the first accepted instant of that day: its second,
\* minute and hour are each the smallest value of their acceptance sets,
\* not the time of day the cascade had reached on the earlier day.
C36_WeekdayRestartsDay ==
    (/\ Returned
     /\ dayBumps > 0
     /\ SecondSet(pattern) # {}
     /\ MinuteSet(pattern) # {}
     /\ HourSet(pattern) # {}) =>
        LET c == CronDate(result)
        IN  /\ c.seconds = MinOf(SecondSet(pattern))
            /\ c.minutes = MinOf(MinuteSet(pattern))
            /\ c.hours = MinOf(HourSet(pattern))


\* the member toDo[k + 1] of a CronDate as a value of its field, and the
\* acceptance set of that field
MemberValue(d, k) ==
    CASE k = 0 -> d.seconds [] k = 1 -> d.minutes [] k = 2 -> d.hours
      [] k = 3 -> d.days [] k = 4 -> d.months + 1

MemberSet(p, k) ==
    CASE k = 0 -> SecondSet(p) [] k = 1 -> MinuteSet(p) [] k = 2 -> HourSet(p)
      [] k = 3 -> DaySet(p) [] k = 4 -> MonthSet(p)

\* a pass of the cascade that found no accepted value from the current one on
Carried == pc = "cascade" /\ carries' = carries + 1

\* C37: whenever a field of the cascade holds no accepted value at or above
\* the current one, the next coarser member is incremented by one, the
\* member itself and every finer one down to seconds are set to the
\* smallest value of their acceptance sets, and the scan restarts at
\* seconds.
C37_CarryResetsFiner ==
    [][Carried =>
          /\ self'[toDo[doing + 1][2]] = self[toDo[doing + 1][2]] + 1
          /\ \A k \in 0..doing :
                 MemberSet(pattern, k) # {} =>
                     MemberValue(self', k) = MinOf(MemberSet(pattern, k))
          /\ doing' = 0]_vars


\* ------------------------------------------- two jobs on one instance
\* scheduler = new Cron(pattern); scheduler.schedule(o1, f1);
\* scheduler.schedule(o2, f2) with two options objects.  The first job is
\* followed in opts, timers and invoked as before, the second in the record
\* second: its options object, its pending timeout and the calls made of
\* its function.

\* the options the two calls of schedule are given
TwoOptions ==
    {PlainOptions,
     [PlainOptions EXCEPT !.maxRuns = Runs(1)],
     [PlainOptions EXCEPT !.paused = TRUE]}

InitTwo ==
    /\ ask = NoAsk
    /\ text = TextEverySecond
    /\ pattern = CronPattern(text)
    /\ given = PlainOptions
    /\ opts = validateOpts(given)
    /\ delayCap = maxDelay
    /\ now = NewDate(2022, 0, 1, 0, 0, 0, 0)
    /\ timers = {}
    /\ handles = 0
    /\ job = FALSE
    /\ invoked = 0
    /\ fires = 0
    /\ skips = 0
    /\ inFlight = 0
    /\ second = NoJob
    /\ last = [op |-> "new", timer |-> NoTimer]
    /\ pc = "idle"
    /\ AdvancerIdle

\* scheduler.schedule(o1, f1)
ScheduleFirst ==
    /\ ~job
    /\ last.op = "new"
    /\ \E o \in TwoOptions :
       \E s \in {schedule(o, pattern, now, delayCap, handles + 1)} :
           /\ opts' = s.opts
           /\ timers' = IF s.armed THEN {s.timer} ELSE {}
           /\ handles' = IF s.armed THEN handles + 1 ELSE handles
           /\ job' = s.armed
    /\ last' = [op |-> "schedule", timer |-> NoTimer]
    /\ UNCHANGED <<ask, text, pattern, now, delayCap, given, invoked, fires,
                   skips, inFlight, second, advancerVars>>

\* scheduler.schedule(o2, f2), right after the first call
ScheduleSecond ==
    /\ job
    /\ second = NoJob
    /\ last.op = "schedule"
    /\ \E o \in TwoOptions :
       \E s \in {schedule(o, pattern, now, delayCap, handles + 1)} :
           /\ second' = [raised |-> FALSE, armed |-> s.armed, opts |-> s.opts,
                         timer |-> s.timer, invoked |-> 0]
           /\ handles' = IF s.armed THEN handles + 1 ELSE handles
    /\ last' = [op |-> "schedule2", timer |-> NoTimer]
    /\ UNCHANGED <<ask, text, pattern, opts, now, timers, job, delayCap,
                   given, invoked, fires, skips, inFlight, advancerVars>>

\* the host fires the timeout of the first job when it is due; f1 returns
FireFirst ==
    \E t \in timers : Fire(t, 0, "return")

\* the host fires the timeout of the second job when it is due; f2 returns
FireSecond ==
    /\ second # NoJob
    /\ second.armed
    /\ fires < MaxFires
    /\ LET t       == second.timer
           clock   == LaterOf(now, t.due)
           runs    == ShouldCall(second.opts, t)
           counted == IF runs
                      THEN [second.opts EXCEPT !.maxRuns = Decrement(@)]
                      ELSE second.opts
           stamped == IF IsRun(t) THEN [counted EXCEPT !.previous = clock]
                      ELSE counted
       IN  /\ now' = clock
           /\ fires' = fires + 1
           /\ \E s \in {schedule(stamped, pattern, clock, delayCap,
                                 handles + 1)} :
                  /\ second' = [raised  |-> FALSE,
                                armed   |-> s.armed,
                                opts    |-> s.opts,
                                timer   |-> s.timer,
                                invoked |-> IF runs THEN second.invoked + 1
                                            ELSE second.invoked]
                  /\ handles' = IF s.armed THEN handles + 1 ELSE handles
           /\ last' = [op |-> "fired2", timer |-> t]
    /\ UNCHANGED <<ask, text, pattern, opts, timers, job, delayCap, given,
                   invoked, skips, inFlight, advancerVars>>

\* the control functions of the second job
StopSecond ==
    /\ second # NoJob
    /\ \E stopped \in {stop(second.opts,
                            IF second.armed THEN {second.timer} ELSE {})} :
           second' = [second EXCEPT
                         !.opts  = stopped.opts,
                         !.armed = stopped.pending # {},
                         !.timer = IF stopped.pending = {} THEN NoTimer
                                   ELSE @]
    /\ last' = [op |-> "stop2", timer |-> NoTimer]
    /\ UNCHANGED <<ask, text, pattern, opts, now, timers, handles, job,
                   delayCap, given, invoked, fires, skips, inFlight,
                   advancerVars>>

PauseSecond ==
    /\ second # NoJob
    /\ second' = [second EXCEPT !.opts = pause(@)]
    /\ last' = [op |-> "pause2", timer |-> NoTimer]
    /\ UNCHANGED <<ask, text, pattern, opts, now, timers, handles, job,
                   delayCap, given, invoked, fires, skips, inFlight,
                   advancerVars>>

ResumeSecond ==
    /\ second # NoJob
    /\ second' = [second EXCEPT !.opts = resume(@)]
    /\ last' = [op |-> "resume2", timer |-> NoTimer]
    /\ UNCHANGED <<ask, text, pattern, opts, now, timers, handles, job,
                   delayCap, given, invoked, fires, skips, inFlight,
                   advancerVars>>

NextTwo ==
    \/ ScheduleFirst
    \/ ScheduleSecond
    \/ FireFirst
    \/ FireSecond
    \/ Stop
    \/ Pause
    \/ Resume
    \/ StopSecond
    \/ PauseSecond
    \/ ResumeSecond

SpecTwo == InitTwo /\ [][NextTwo]_vars

\* a step of the second job, and a fire of the first
BySecond == last'.op \in {"fired2", "stop2", "pause2", "resume2"}
FiredFirst ==
    fires' = fires + 1 /\ last'.op \in {"ran", "skipped", "blank"}

\* the job's own options do not end it
OwnLimitsAllow(o) ==
    ~o.kill /\ (o.maxRuns.inf \/ o.maxRuns.v > 0) /\ o.stopAt = None

====
